---- MODULE Spec2Model ----
(***************************************************************************)
(* A model of wexample_helpers_git/helpers/git.py: thin helpers that run   *)
(* git command lines through shell_run (or GitPython for git_is_init and   *)
(* git_remote_create_once) and post-process the result.                    *)
(*                                                                         *)
(* The program keeps no state of its own: the state is the repository the  *)
(* commands act on (repo), the filesystem git_is_init looks at (fs), and,  *)
(* for observation, the record of the last helper call (last): its         *)
(* arguments, the repository before it, the commands it issued with the    *)
(* stream-inheritance flag of each, and what it returned or raised.        *)
(***************************************************************************)
EXTENDS Integers, Sequences, FiniteSets, TLC

VARIABLES repo, fs, last

vars == <<repo, fs, last>>

(***************************************************************************)
(* Universes of the inputs.                                                *)
(***************************************************************************)
Branches == {"main", "dev"}
BranchOrder == <<"dev", "main">>
RemoteNames == {"origin", "backup"}
RemoteOrder == <<"backup", "origin">>
Urls == {"https://a/repo.git", "https://b/repo.git"}
Tags == {"v1", "v2"}
TagOrder == <<"v1", "v2">>
Paths == {"/w", "/w/empty", "/w/none"}
PathKinds == {"absent", "file", "dir", "worktree", "bare"}
NoUrl == ""
NoTag == -1
MaxCommits == 1

(***************************************************************************)
(* Python strings.  TLC's strings support Len, SubSeq and \o, so str       *)
(* methods are computed character by character as CPython does.            *)
(***************************************************************************)
Char(s, i) == SubSeq(s, i, i)

IsSpace(c) == c \in {" ", "\n", "\t", "\r"}

RECURSIVE LStrip(_)
LStrip(s) ==
    IF Len(s) > 0 /\ IsSpace(Char(s, 1)) THEN LStrip(SubSeq(s, 2, Len(s))) ELSE s

RECURSIVE RStrip(_)
RStrip(s) ==
    IF Len(s) > 0 /\ IsSpace(Char(s, Len(s)))
    THEN RStrip(SubSeq(s, 1, Len(s) - 1))
    ELSE s

\* str.strip()
Strip(s) == RStrip(LStrip(s))

\* Position of the first occurrence of the one-character string c, 0 if none.
Find(s, c) ==
    IF \E i \in 1..Len(s) : Char(s, i) = c
    THEN CHOOSE i \in 1..Len(s) :
            /\ Char(s, i) = c
            /\ \A j \in 1..(i - 1) : Char(s, j) # c
    ELSE 0

\* str.split(c, 1)
SplitOnce(s, c) ==
    LET i == Find(s, c)
    IN  IF i = 0 THEN <<s>> ELSE <<SubSeq(s, 1, i - 1), SubSeq(s, i + 1, Len(s))>>

\* str.split(c)
RECURSIVE Split(_, _)
Split(s, c) ==
    LET i == Find(s, c)
    IN  IF i = 0 THEN <<s>>
        ELSE <<SubSeq(s, 1, i - 1)>> \o Split(SubSeq(s, i + 1, Len(s)), c)

\* "\n".join(lines) with a newline after every line, as git prints a list.
RECURSIVE Lines(_)
Lines(seq) == IF seq = <<>> THEN "" ELSE Head(seq) \o "\n" \o Lines(Tail(seq))

\* " ".join(argv)
RECURSIVE Join(_)
Join(seq) ==
    IF seq = <<>> THEN ""
    ELSE IF Len(seq) = 1 THEN Head(seq)
    ELSE Head(seq) \o " " \o Join(Tail(seq))

\* The members of set S in the order of the sequence ord.
RECURSIVE Ordered(_, _)
Ordered(ord, S) ==
    IF ord = <<>> THEN <<>>
    ELSE (IF Head(ord) \in S THEN <<Head(ord)>> ELSE <<>>) \o Ordered(Tail(ord), S)

Range(seq) == {seq[i] : i \in 1..Len(seq)}

(***************************************************************************)
(* Python values: a type tag and a payload.  A ShellResult is the object   *)
(* shell_run returns; its payload is its stdout attribute, which is None   *)
(* when the child inherited the parent's streams.                          *)
(***************************************************************************)
NoStdout == "<None>"
PyStr(s) == [t |-> "str", v |-> s]
PyNone == [t |-> "NoneType", v |-> ""]
PyBool(b) == [t |-> "bool", v |-> IF b THEN "True" ELSE "False"]
PyRemote(name, url) == [t |-> "Remote", v |-> name \o " " \o url]
ShellResult(stdout) == [t |-> "ShellResult", v |-> stdout]

\* a == b for a ShellResult or str a and a str b: objects of different
\* classes are unequal.
PyEq(a, b) == a.t = b.t /\ a.v = b.v

NoErr == [type |-> "", msg |-> ""]
Err(type, msg) == [type |-> type, msg |-> msg]
CommandError(argv) == Err("CommandError", Join(argv))

(***************************************************************************)
(* The repository, as the git binary sees it.                              *)
(*   hasSwitch       the binary knows the `switch` command (git >= 2.23)   *)
(*   branches, head  local branches; head is "HEAD" when detached          *)
(*   remotes         remote name -> url, NoUrl when not configured         *)
(*   remoteBranches  remote-tracking refs, as "remote/branch"              *)
(*   upstream        local branch -> "remote/branch", "" when none         *)
(*   tags            tag -> commit it names, NoTag when absent             *)
(***************************************************************************)
RemoteSet(env) == {r \in RemoteNames : env.remotes[r] # NoUrl}
TagSet(env) == {t \in Tags : env.tags[t] # NoTag}

HashDigits == <<"0", "1", "2", "3", "4", "5", "6", "7", "8", "9">>
HashBody == "9fceb02d0ae598e95dc970b74767f19372d61af"
FullHash(c) == HashDigits[c + 1] \o HashBody

R(ok, out, env) == [ok |-> ok, out |-> out, env |-> env]

\* git rev-parse --abbrev-ref HEAD
ExecCurrentBranch(env) == R(TRUE, env.head \o "\n", env)

\* git rev-parse --abbrev-ref --symbolic-full-name @{u}
ExecUpstream(env) ==
    IF env.head \in env.branches /\ env.upstream[env.head] # ""
    THEN R(TRUE, env.upstream[env.head] \o "\n", env)
    ELSE R(FALSE, "", env)

\* git branch --set-upstream-to <remote>/<branch> <branch>
ExecSetUpstreamTo(env, target, branch) ==
    IF branch \in env.branches /\ target \in env.remoteBranches
    THEN R(TRUE, "", [env EXCEPT !.upstream[branch] = target])
    ELSE R(FALSE, "", env)

\* git push [--set-upstream] <remote> <local>:<remote_branch>
ExecPush(env, remote, local, remoteBranch, setUpstream) ==
    IF remote \in RemoteSet(env) /\ local \in env.branches
    THEN LET target == remote \o "/" \o remoteBranch
         IN  R(TRUE, "",
               [env EXCEPT !.remoteBranches = @ \cup {target},
                           !.upstream[local] = IF setUpstream THEN target ELSE @])
    ELSE R(FALSE, "", env)

\* git switch -c <branch> (withSwitch) and git checkout -b <branch>
ExecCreateBranch(env, branch, withSwitch) ==
    IF (withSwitch => env.hasSwitch) /\ branch \in Branches \ env.branches
    THEN R(TRUE, "",
           [env EXCEPT !.branches = @ \cup {branch}, !.head = branch,
                       !.upstream[branch] = ""])
    ELSE R(FALSE, "", env)

\* git switch <branch>: an existing local branch, or (the binary's default
\* --guess) a new local branch tracking the one remote that has the name.
ExecSwitch(env, branch) ==
    LET having == {r \in RemoteSet(env) : (r \o "/" \o branch) \in env.remoteBranches}
    IN  IF ~env.hasSwitch THEN R(FALSE, "", env)
        ELSE IF branch \in env.branches THEN R(TRUE, "", [env EXCEPT !.head = branch])
        ELSE IF branch \in Branches /\ Cardinality(having) = 1
        THEN LET r == CHOOSE x \in having : TRUE
             IN  R(TRUE, "",
                   [env EXCEPT !.branches = @ \cup {branch}, !.head = branch,
                               !.upstream[branch] = r \o "/" \o branch])
        ELSE R(FALSE, "", env)

\* git rev-parse [--short] HEAD
ExecRevParseHead(env, short) ==
    R(TRUE,
      (IF short THEN SubSeq(FullHash(env.commit), 1, 7)
       ELSE FullHash(env.commit)) \o "\n",
      env)

\* bash -lc "git diff [--cached] --quiet || echo CHANGED"
ExecDiffQuiet(env, cached) ==
    R(TRUE,
      IF (IF cached THEN env.indexDirty ELSE env.workDirty) THEN "CHANGED\n" ELSE "",
      env)

\* bash -lc "git diff --quiet <tag> -- '.' || echo CHANGED": a failing diff
\* (unknown tag) takes the echo branch too.
ExecDiffSinceTag(env, tag) ==
    R(TRUE,
      IF \/ tag \notin TagSet(env)
         \/ env.tags[tag] # env.commit
         \/ env.workDirty \/ env.indexDirty
      THEN "CHANGED\n" ELSE "",
      env)

\* A glob that is a literal or a literal followed by one "*".
GlobMatch(pattern, name) ==
    IF Len(pattern) > 0 /\ Char(pattern, Len(pattern)) = "*"
    THEN /\ Len(name) >= Len(pattern) - 1
         /\ SubSeq(name, 1, Len(pattern) - 1) = SubSeq(pattern, 1, Len(pattern) - 1)
    ELSE name = pattern

\* bash -lc "git tag --list '<prefix>' | sort -V | tail -n1"
ExecLastTag(env, prefix) ==
    LET hits == Ordered(TagOrder, {t \in TagSet(env) : GlobMatch(prefix, t)})
    IN  R(TRUE, IF hits = <<>> THEN "" ELSE hits[Len(hits)] \o "\n", env)

\* git pull --rebase --autostash
ExecPull(env) ==
    R(env.head \in env.branches /\ env.upstream[env.head] # "", "", env)

\* git push <remote> <tag>
ExecPushTag(env, remote, tag) ==
    R(remote \in RemoteSet(env) /\ tag \in TagSet(env), "", env)

\* git tag -a <tag> -m <message>
ExecTag(env, tag) ==
    IF tag \in Tags \ TagSet(env)
    THEN R(TRUE, "", [env EXCEPT !.tags[tag] = env.commit])
    ELSE R(FALSE, "", env)

\* git rev-parse -q --verify refs/tags/<tag>
ExecVerifyTag(env, tag) ==
    IF tag \in TagSet(env)
    THEN R(TRUE, FullHash(env.tags[tag]) \o "\n", env)
    ELSE R(FALSE, "", env)

\* git commit -am <message>
ExecCommit(env) ==
    IF (env.indexDirty \/ env.workDirty) /\ env.commit < MaxCommits
    THEN R(TRUE, "",
           [env EXCEPT !.commit = @ + 1, !.indexDirty = FALSE, !.workDirty = FALSE])
    ELSE R(FALSE, "", env)

\* git branch --format %(refname:short): detached HEAD lists itself first.
ExecBranchList(env) ==
    R(TRUE,
      Lines((IF env.head \in env.branches THEN <<>>
             ELSE <<"(HEAD detached at " \o SubSeq(FullHash(env.commit), 1, 7) \o ")">>)
            \o Ordered(BranchOrder, env.branches)),
      env)

\* git remote
ExecRemoteList(env) == R(TRUE, Lines(Ordered(RemoteOrder, RemoteSet(env))), env)

\* git for-each-ref refs/heads/<branch> --format=%(upstream:short)
ExecForEachRefUpstream(env, branch) ==
    R(TRUE, IF branch \in env.branches THEN env.upstream[branch] \o "\n" ELSE "", env)

(***************************************************************************)
(* shell_run and the helpers.  A helper's outcome is the repository after  *)
(* it, what it returned, what it raised (NoErr if nothing) and the         *)
(* commands it issued, each with the inherit_stdio it passed.              *)
(***************************************************************************)
H(env, ret, err, cmds) == [env |-> env, ret |-> ret, err |-> err, cmds |-> cmds]

\* shell_run(argv, inherit_stdio=..., cwd=...): r is what the binary does
\* with argv.  A non-zero exit raises; inherited streams leave stdout None.
shell_run(argv, inherit_stdio, r) ==
    [ok |-> r.ok,
     env |-> r.env,
     res |-> ShellResult(IF inherit_stdio THEN NoStdout ELSE r.out),
     err |-> IF r.ok THEN NoErr ELSE CommandError(argv),
     cmds |-> <<[argv |-> argv, inherit |-> inherit_stdio]>>]

\* <ShellResult>.stdout.strip()
StdoutStrip(res) ==
    IF res.v = NoStdout
    THEN [err |-> Err("AttributeError", "'NoneType' object has no attribute 'strip'"),
          val |-> ""]
    ELSE [err |-> NoErr, val |-> Strip(res.v)]

\* A helper that runs one command for its effect and returns None.
RunOnly(s) == H(s.env, PyNone, s.err, s.cmds)

git_checkout_new_branch(env, branch, inherit_stdio) ==
    RunOnly(shell_run(<<"git", "checkout", "-b", branch>>, inherit_stdio,
                      ExecCreateBranch(env, branch, FALSE)))

git_commit_all_with_message(env, message, inherit_stdio) ==
    RunOnly(shell_run(<<"git", "commit", "-am", message>>, inherit_stdio,
                      ExecCommit(env)))

git_switch_branch(env, branch, inherit_stdio) ==
    RunOnly(shell_run(<<"git", "switch", branch>>, inherit_stdio,
                      ExecSwitch(env, branch)))

git_switch_new_branch(env, branch, inherit_stdio) ==
    RunOnly(shell_run(<<"git", "switch", "-c", branch>>, inherit_stdio,
                      ExecCreateBranch(env, branch, TRUE)))

\* The chain without its third step: the legacy checkout's failure propagates.
git_create_or_switch_branch_two_steps(env, branch, inherit_stdio) ==
    LET a == git_switch_new_branch(env, branch, inherit_stdio)
    IN  IF a.err = NoErr THEN a
        ELSE LET b == git_checkout_new_branch(a.env, branch, inherit_stdio)
             IN  H(b.env, PyNone, b.err, a.cmds \o b.cmds)

git_create_or_switch_branch(env, branch, inherit_stdio) ==
    LET a == git_switch_new_branch(env, branch, inherit_stdio)
    IN  IF a.err = NoErr THEN a
        ELSE LET b == git_checkout_new_branch(a.env, branch, inherit_stdio)
             IN  IF b.err = NoErr THEN H(b.env, PyNone, NoErr, a.cmds \o b.cmds)
                 ELSE LET c == git_switch_branch(b.env, branch, inherit_stdio)
                      IN  H(c.env, PyNone, c.err, a.cmds \o b.cmds \o c.cmds)

\* The query run with the caller's flag.
git_current_branch_passthrough(env, inherit_stdio) ==
    LET s == shell_run(<<"git", "rev-parse", "--abbrev-ref", "HEAD">>, inherit_stdio,
                       ExecCurrentBranch(env))
        o == StdoutStrip(s.res)
    IN  IF ~s.ok THEN H(s.env, PyNone, s.err, s.cmds)
        ELSE IF o.err # NoErr THEN H(s.env, PyNone, o.err, s.cmds)
        ELSE H(s.env, PyStr(o.val), NoErr, s.cmds)

\* The inherit_stdio parameter is accepted and not used.
git_current_branch(env, inherit_stdio) ==
    LET s == shell_run(<<"git", "rev-parse", "--abbrev-ref", "HEAD">>, FALSE,
                       ExecCurrentBranch(env))
        o == StdoutStrip(s.res)
    IN  IF ~s.ok THEN H(s.env, PyNone, s.err, s.cmds)
        ELSE IF o.err # NoErr THEN H(s.env, PyNone, o.err, s.cmds)
        ELSE H(s.env, PyStr(o.val), NoErr, s.cmds)

\* Any failure of the query is answered "".
git_get_upstream(env, inherit_stdio) ==
    LET s == shell_run(<<"git", "rev-parse", "--abbrev-ref", "--symbolic-full-name",
                         "@{u}">>, FALSE, ExecUpstream(env))
        o == StdoutStrip(s.res)
    IN  IF ~s.ok \/ o.err # NoErr THEN H(s.env, PyStr(""), NoErr, s.cmds)
        ELSE H(s.env, PyStr(o.val), NoErr, s.cmds)

git_set_upstream(env, branch, remote, inherit_stdio) ==
    RunOnly(shell_run(<<"git", "branch", "--set-upstream-to",
                        remote \o "/" \o branch, branch>>, inherit_stdio,
                      ExecSetUpstreamTo(env, remote \o "/" \o branch, branch)))

\* The upstream set again whether or not one is configured.
git_ensure_upstream_always(env, default_remote, inherit_stdio) ==
    LET b == git_current_branch(env, FALSE)
        u == git_get_upstream(b.env, FALSE)
        q == b.cmds \o u.cmds
        dr == IF default_remote = PyNone \/ default_remote.v = ""
              THEN "origin" ELSE default_remote.v
        s == git_set_upstream(u.env, b.ret.v, dr, inherit_stdio)
        p == shell_run(<<"git", "push", "-u", dr, b.ret.v>>, inherit_stdio,
                       ExecPush(s.env, dr, b.ret.v, b.ret.v, TRUE))
    IN  IF s.err = NoErr
        THEN H(s.env, PyStr(dr \o "/" \o b.ret.v), NoErr, q \o s.cmds)
        ELSE H(p.env, IF p.ok THEN PyStr(dr \o "/" \o b.ret.v) ELSE PyNone, p.err,
               q \o s.cmds \o p.cmds)

\* default_remote is a str or None;  `default_remote or "origin"`.
git_ensure_upstream(env, default_remote, inherit_stdio) ==
    LET b == git_current_branch(env, FALSE)
        u == git_get_upstream(b.env, FALSE)
        q == b.cmds \o u.cmds
        dr == IF default_remote = PyNone \/ default_remote.v = ""
              THEN "origin" ELSE default_remote.v
    IN  IF b.err # NoErr THEN H(b.env, PyNone, b.err, b.cmds)
        ELSE IF u.ret.v # "" THEN H(u.env, u.ret, NoErr, q)
        ELSE LET branch == b.ret.v
                 s == git_set_upstream(u.env, branch, dr, inherit_stdio)
             IN  IF s.err = NoErr
                 THEN H(s.env, PyStr(dr \o "/" \o branch), NoErr, q \o s.cmds)
                 ELSE LET p == shell_run(<<"git", "push", "-u", dr, branch>>,
                                         inherit_stdio,
                                         ExecPush(s.env, dr, branch, branch, TRUE))
                      IN  IF p.ok
                          THEN H(p.env, PyStr(dr \o "/" \o branch), NoErr,
                                 q \o s.cmds \o p.cmds)
                          ELSE H(p.env, PyNone, p.err, q \o s.cmds \o p.cmds)

\* A query helper: run argv captured, strip stdout, hand it to `ret`.
Query(s) ==
    LET o == StdoutStrip(s.res)
    IN  IF ~s.ok THEN [err |-> s.err, val |-> ""] ELSE o

git_get_current_commit_hash(env, short) ==
    LET s == shell_run(IF short THEN <<"git", "rev-parse", "--short", "HEAD">>
                       ELSE <<"git", "rev-parse", "HEAD">>,
                       FALSE, ExecRevParseHead(env, short))
        o == Query(s)
    IN  H(s.env, IF o.err = NoErr THEN PyStr(o.val) ELSE PyNone, o.err, s.cmds)

git_has_changes_since_tag(env, tag, pathspec) ==
    LET s == shell_run(<<"bash", "-lc",
                         "git diff --quiet " \o tag \o " -- '" \o pathspec
                             \o "' || echo CHANGED">>,
                       FALSE, ExecDiffSinceTag(env, tag))
        o == Query(s)
    IN  H(s.env, IF o.err = NoErr THEN PyBool(o.val = "CHANGED") ELSE PyNone,
          o.err, s.cmds)

git_has_index_changes(env) ==
    LET s == shell_run(<<"bash", "-lc", "git diff --cached --quiet || echo CHANGED">>,
                       FALSE, ExecDiffQuiet(env, TRUE))
        o == Query(s)
    IN  H(s.env, IF o.err = NoErr THEN PyBool(o.val = "CHANGED") ELSE PyNone,
          o.err, s.cmds)

git_has_working_changes(env) ==
    LET s == shell_run(<<"bash", "-lc", "git diff --quiet || echo CHANGED">>,
                       FALSE, ExecDiffQuiet(env, FALSE))
        o == Query(s)
    IN  H(s.env, IF o.err = NoErr THEN PyBool(o.val = "CHANGED") ELSE PyNone,
          o.err, s.cmds)

\* `a or b`: b is not evaluated when a is true.
git_has_uncommitted_changes(env) ==
    LET a == git_has_index_changes(env)
    IN  IF a.err # NoErr \/ a.ret = PyBool(TRUE) THEN a
        ELSE LET b == git_has_working_changes(a.env)
             IN  H(b.env, b.ret, b.err, a.cmds \o b.cmds)

git_last_tag_for_prefix(env, prefix, inherit_stdio) ==
    LET s == shell_run(<<"bash", "-lc",
                         "git tag --list '" \o prefix \o "' | sort -V | tail -n1">>,
                       FALSE, ExecLastTag(env, prefix))
        o == Query(s)
    IN  H(s.env,
          IF o.err = NoErr /\ o.val # "" THEN PyStr(o.val) ELSE PyNone,
          o.err, s.cmds)

git_pull_rebase_autostash(env, inherit_stdio) ==
    RunOnly(shell_run(<<"git", "pull", "--rebase", "--autostash">>, inherit_stdio,
                      ExecPull(env)))

git_push_tag(env, tag, remote, inherit_stdio) ==
    RunOnly(shell_run(<<"git", "push", remote, tag>>, inherit_stdio,
                      ExecPushTag(env, remote, tag)))

git_tag_annotated(env, tag, message, inherit_stdio) ==
    RunOnly(shell_run(<<"git", "tag", "-a", tag, "-m", message>>, inherit_stdio,
                      ExecTag(env, tag)))

git_tag_exists(env, tag, inherit_stdio) ==
    LET s == shell_run(<<"git", "rev-parse", "-q", "--verify", "refs/tags/" \o tag>>,
                       FALSE, ExecVerifyTag(env, tag))
        o == Query(s)
    IN  H(s.env, PyBool(o.err = NoErr /\ Len(o.val) > 0), NoErr, s.cmds)

(***************************************************************************)
(* git_run and git_push_follow_tags.  git_run returns what shell_run       *)
(* returns, the ShellResult object; git_push_follow_tags goes on with that *)
(* object itself, not with its stdout.                                     *)
(***************************************************************************)
git_run(cmd, inherit_stdio, r) == shell_run(<<"git">> \o cmd, inherit_stdio, r)

IsStr(v) == v.t = "str"
NotIterable(v) == Err("TypeError", "argument of type '" \o v.t \o "' is not iterable")
NoAttribute(v, a) ==
    Err("AttributeError", "'" \o v.t \o "' object has no attribute '" \o a \o "'")

\* Lines 275-282: the branch to push, a str the caller gave or the object
\* git_run returned for the current branch.
PushBranchName(env, branch_name) ==
    IF branch_name # PyNone
    THEN [env |-> env, err |-> NoErr, cmds |-> <<>>, name |-> branch_name]
    ELSE LET s == git_run(<<"rev-parse", "--abbrev-ref", "HEAD">>, FALSE,
                          ExecCurrentBranch(env))
         IN  IF ~s.ok
             THEN [env |-> s.env, err |-> s.err, cmds |-> s.cmds, name |-> PyNone]
             ELSE IF PyEq(s.res, PyStr("HEAD"))
             THEN [env |-> s.env,
                   err |-> Err("RuntimeError", "Cannot push: detached HEAD state."),
                   cmds |-> s.cmds, name |-> PyNone]
             ELSE [env |-> s.env, err |-> NoErr, cmds |-> s.cmds, name |-> s.res]

\* Lines 285-289: `":" in branch_name`, then split(":", 1).
PushRefspec(name) ==
    IF ~IsStr(name) THEN [err |-> NotIterable(name), local |-> "", remote |-> ""]
    ELSE IF Find(name.v, ":") # 0
    THEN [err |-> NoErr, local |-> SplitOnce(name.v, ":")[1],
          remote |-> SplitOnce(name.v, ":")[2]]
    ELSE [err |-> NoErr, local |-> name.v, remote |-> name.v]

\* [x for x in <obj>.split("\n") if x.strip()]
NonBlankLines(obj) ==
    IF ~IsStr(obj) THEN [err |-> NoAttribute(obj, "split"), items |-> <<>>]
    ELSE [err |-> NoErr,
          items |-> SelectSeq(Split(obj.v, "\n"), LAMBDA x : Strip(x) # "")]

\* Lines 311-332: the upstream query and the push.
PushWithTags(env, inherit_stdio, local, remoteBranch, remote, cmds) ==
    LET u == git_run(<<"for-each-ref", "refs/heads/" \o local,
                       "--format=%(upstream:short)">>, FALSE,
                     ExecForEachRefUpstream(env, local))
        refspec == local \o ":" \o remoteBranch
    IN  IF ~u.ok THEN H(u.env, PyNone, u.err, cmds \o u.cmds)
        ELSE IF ~IsStr(u.res)
        THEN H(u.env, PyNone, NoAttribute(u.res, "strip"), cmds \o u.cmds)
        ELSE LET bare == Strip(u.res.v) = ""
                 p == git_run(IF bare
                              THEN <<"push", "--set-upstream", remote, refspec,
                                     "--follow-tags">>
                              ELSE <<"push", remote, refspec, "--follow-tags">>,
                              inherit_stdio,
                              ExecPush(u.env, remote, local, remoteBranch, bare))
             IN  H(p.env, PyNone, p.err, cmds \o u.cmds \o p.cmds)

git_push_follow_tags(env, inherit_stdio, branch_name, remote) ==
    LET n == PushBranchName(env, branch_name)
        f == PushRefspec(n.name)
        lb == git_run(<<"branch", "--format", "%(refname:short)">>, FALSE,
                      ExecBranchList(n.env))
        local_branches == NonBlankLines(lb.res)
        rm == git_run(<<"remote">>, FALSE, ExecRemoteList(lb.env))
        remotes == NonBlankLines(rm.res)
    IN  IF n.err # NoErr THEN H(n.env, PyNone, n.err, n.cmds)
        ELSE IF f.err # NoErr THEN H(n.env, PyNone, f.err, n.cmds)
        ELSE IF ~lb.ok THEN H(lb.env, PyNone, lb.err, n.cmds \o lb.cmds)
        ELSE IF local_branches.err # NoErr
        THEN H(lb.env, PyNone, local_branches.err, n.cmds \o lb.cmds)
        ELSE IF f.local \notin Range(local_branches.items)
        THEN H(lb.env, PyNone,
               Err("ValueError", "Local branch '" \o f.local \o "' does not exist."),
               n.cmds \o lb.cmds)
        ELSE IF ~rm.ok THEN H(rm.env, PyNone, rm.err, n.cmds \o lb.cmds \o rm.cmds)
        ELSE IF remotes.err # NoErr
        THEN H(rm.env, PyNone, remotes.err, n.cmds \o lb.cmds \o rm.cmds)
        ELSE IF remote \notin Range(remotes.items)
        THEN H(rm.env, PyNone,
               Err("ValueError", "Remote '" \o remote \o "' does not exist."),
               n.cmds \o lb.cmds \o rm.cmds)
        ELSE PushWithTags(rm.env, inherit_stdio, f.local, f.remote, remote,
                          n.cmds \o lb.cmds \o rm.cmds)

(***************************************************************************)
(* The two helpers that go through GitPython.                              *)
(***************************************************************************)
\* file_resolve_path: a str or a Path becomes a Path.
file_resolve_path(path) == [t |-> "Path", v |-> path.v]

\* Repo(path) without search_parent_directories: path itself must exist and be
\* a work tree root or a git directory.  The exception raised, "" if none.
RepoOpen(fsys, path) ==
    IF fsys[path.v] = "absent" THEN "NoSuchPathError"
    ELSE IF fsys[path.v] \in {"worktree", "bare"} THEN ""
    ELSE "InvalidGitRepositoryError"

\* Without the existence test: Repo(path) raises NoSuchPathError.
git_is_init_unchecked(fsys, path) ==
    LET p == file_resolve_path(path)
        e == RepoOpen(fsys, p)
    IN  IF e = "" THEN [fs |-> fsys, ret |-> PyBool(TRUE), err |-> NoErr]
        ELSE IF e = "InvalidGitRepositoryError"
        THEN [fs |-> fsys, ret |-> PyBool(FALSE), err |-> NoErr]
        ELSE [fs |-> fsys, ret |-> PyNone, err |-> Err(e, path.v)]

git_is_init(fsys, path) ==
    LET p == file_resolve_path(path)
        e == RepoOpen(fsys, p)
    IN  IF fsys[p.v] = "absent" THEN [fs |-> fsys, ret |-> PyBool(FALSE), err |-> NoErr]
        ELSE IF e = "" THEN [fs |-> fsys, ret |-> PyBool(TRUE), err |-> NoErr]
        ELSE IF e = "InvalidGitRepositoryError"
        THEN [fs |-> fsys, ret |-> PyBool(FALSE), err |-> NoErr]
        ELSE [fs |-> fsys, ret |-> PyNone, err |-> Err(e, path.v)]

\* An existing remote given the new URL.
git_remote_create_once_overwrite(env, name, url) ==
    IF env.remotes[name] # NoUrl
    THEN H([env EXCEPT !.remotes[name] = url], PyNone, NoErr, <<>>)
    ELSE H([env EXCEPT !.remotes[name] = url], PyRemote(name, url), NoErr, <<>>)

\* repo.remote(name) raises ValueError when the remote does not exist.
git_remote_create_once(env, name, url) ==
    IF env.remotes[name] # NoUrl THEN H(env, PyNone, NoErr, <<>>)
    ELSE H([env EXCEPT !.remotes[name] = url], PyRemote(name, url), NoErr, <<>>)

(***************************************************************************)
(* Actions: one per helper.  Every call is synchronous and runs to its     *)
(* end; what it raised is recorded, and the repository keeps whatever the  *)
(* commands before the raise did.                                          *)
(***************************************************************************)
Flags == BOOLEAN
DefaultRemotes == {PyNone, PyStr(""), PyStr("origin"), PyStr("backup")}
BranchNames == {PyNone, PyStr("main"), PyStr("dev"), PyStr("main:dev")}
Prefixes == {"v*", "x*"}
PathArgs == {[t |-> k, v |-> p] : k \in {"str", "Path"}, p \in Paths}

Call(op, arg, arg2, inherit, h) ==
    /\ repo' = h.env
    /\ fs' = fs
    /\ last' = [op |-> op, arg |-> arg, arg2 |-> arg2, inherit |-> inherit,
                ret |-> h.ret, err |-> h.err, cmds |-> h.cmds,
                pre |-> repo, prefs |-> fs]

GitCheckoutNewBranch ==
    \E b \in Branches, i \in Flags :
        Call("git_checkout_new_branch", PyStr(b), PyNone, i,
             git_checkout_new_branch(repo, b, i))

GitCommitAllWithMessage ==
    \E i \in Flags :
        /\ repo.commit < MaxCommits
        /\ Call("git_commit_all_with_message", PyStr("msg"), PyNone, i,
                git_commit_all_with_message(repo, "msg", i))

GitCreateOrSwitchBranch ==
    \E b \in Branches, i \in Flags :
        Call("git_create_or_switch_branch", PyStr(b), PyNone, i,
             git_create_or_switch_branch(repo, b, i))

GitCurrentBranch ==
    \E i \in Flags :
        Call("git_current_branch", PyNone, PyNone, i, git_current_branch(repo, i))

GitEnsureUpstream ==
    \E d \in DefaultRemotes, i \in Flags :
        Call("git_ensure_upstream", d, PyNone, i, git_ensure_upstream(repo, d, i))

GitGetCurrentCommitHash ==
    \E short \in BOOLEAN :
        Call("git_get_current_commit_hash", PyBool(short), PyNone, FALSE,
             git_get_current_commit_hash(repo, short))

GitGetUpstream ==
    \E i \in Flags :
        Call("git_get_upstream", PyNone, PyNone, i, git_get_upstream(repo, i))

GitHasChangesSinceTag ==
    \E t \in Tags :
        Call("git_has_changes_since_tag", PyStr(t), PyStr("."), FALSE,
             git_has_changes_since_tag(repo, t, "."))

GitHasIndexChanges ==
    Call("git_has_index_changes", PyNone, PyNone, FALSE, git_has_index_changes(repo))

GitHasUncommittedChanges ==
    Call("git_has_uncommitted_changes", PyNone, PyNone, FALSE,
         git_has_uncommitted_changes(repo))

GitHasWorkingChanges ==
    Call("git_has_working_changes", PyNone, PyNone, FALSE,
         git_has_working_changes(repo))

GitLastTagForPrefix ==
    \E x \in Prefixes, i \in Flags :
        Call("git_last_tag_for_prefix", PyStr(x), PyNone, i,
             git_last_tag_for_prefix(repo, x, i))

GitPullRebaseAutostash ==
    \E i \in Flags :
        Call("git_pull_rebase_autostash", PyNone, PyNone, i,
             git_pull_rebase_autostash(repo, i))

GitPushFollowTags ==
    \E b \in BranchNames, r \in RemoteNames, i \in Flags :
        Call("git_push_follow_tags", b, PyStr(r), i,
             git_push_follow_tags(repo, i, b, r))

GitPushTag ==
    \E t \in Tags, r \in RemoteNames, i \in Flags :
        Call("git_push_tag", PyStr(t), PyStr(r), i, git_push_tag(repo, t, r, i))

GitSetUpstream ==
    \E b \in Branches, r \in RemoteNames, i \in Flags :
        Call("git_set_upstream", PyStr(b), PyStr(r), i,
             git_set_upstream(repo, b, r, i))

GitSwitchBranch ==
    \E b \in Branches, i \in Flags :
        Call("git_switch_branch", PyStr(b), PyNone, i, git_switch_branch(repo, b, i))

GitSwitchNewBranch ==
    \E b \in Branches, i \in Flags :
        Call("git_switch_new_branch", PyStr(b), PyNone, i,
             git_switch_new_branch(repo, b, i))

GitTagAnnotated ==
    \E t \in Tags, i \in Flags :
        Call("git_tag_annotated", PyStr(t), PyStr("msg"), i,
             git_tag_annotated(repo, t, "msg", i))

GitTagExists ==
    \E t \in Tags, i \in Flags :
        Call("git_tag_exists", PyStr(t), PyNone, i, git_tag_exists(repo, t, i))

GitIsInit ==
    \E p \in PathArgs :
        LET h == git_is_init(fs, p)
        IN  /\ fs' = h.fs
            /\ repo' = repo
            /\ last' = [op |-> "git_is_init", arg |-> p, arg2 |-> PyNone,
                        inherit |-> FALSE, ret |-> h.ret, err |-> h.err,
                        cmds |-> <<>>, pre |-> repo, prefs |-> fs]

GitRemoteCreateOnce ==
    \E n \in RemoteNames, u \in Urls :
        Call("git_remote_create_once", PyStr(n), PyStr(u), FALSE,
             git_remote_create_once(repo, n, u))

(***************************************************************************)
(* Initial states.  A repository as `git init -b main` plus one commit     *)
(* leaves it, varied in what no helper can bring about: the binary's       *)
(* version, a detached HEAD, branches and remotes that exist already,      *)
(* remote branches already fetched, edits not yet committed.               *)
(***************************************************************************)
FreshRepo ==
    [hasSwitch |-> TRUE, branches |-> {"main"}, head |-> "main",
     remotes |-> [r \in RemoteNames |-> NoUrl], remoteBranches |-> {},
     upstream |-> [b \in Branches |-> ""], tags |-> [t \in Tags |-> NoTag],
     indexDirty |-> FALSE, workDirty |-> FALSE, commit |-> 0]

TestFs == [p \in Paths |->
             IF p = "/w" THEN "worktree" ELSE IF p = "/w/empty" THEN "dir" ELSE "absent"]

NoCall ==
    [op |-> "", arg |-> PyNone, arg2 |-> PyNone, inherit |-> FALSE, ret |-> PyNone,
     err |-> NoErr, cmds |-> <<>>, pre |-> FreshRepo, prefs |-> TestFs]

OriginUrl == "https://a/repo.git"
RemoteConfigs ==
    {[r \in RemoteNames |-> NoUrl],
     [r \in RemoteNames |-> IF r = "origin" THEN OriginUrl ELSE NoUrl],
     [r \in RemoteNames |-> OriginUrl]}

Tracked(remotes) ==
    {r \o "/" \o b : r \in {x \in RemoteNames : remotes[x] # NoUrl}, b \in Branches}

\* The helpers that run a command line, all of them.
Init ==
    /\ fs = TestFs
    /\ \E sw \in BOOLEAN, hd \in {"main", "HEAD"}, o \in {NoUrl, OriginUrl},
          wd \in BOOLEAN, id \in BOOLEAN :
          repo = [FreshRepo EXCEPT !.hasSwitch = sw, !.head = hd,
                                   !.remotes["origin"] = o,
                                   !.workDirty = wd, !.indexDirty = id]
    /\ last = [NoCall EXCEPT !.pre = repo]

Next ==
    \/ GitCheckoutNewBranch
    \/ GitCommitAllWithMessage
    \/ GitCreateOrSwitchBranch
    \/ GitCurrentBranch
    \/ GitEnsureUpstream
    \/ GitGetCurrentCommitHash
    \/ GitGetUpstream
    \/ GitHasChangesSinceTag
    \/ GitHasIndexChanges
    \/ GitHasUncommittedChanges
    \/ GitHasWorkingChanges
    \/ GitLastTagForPrefix
    \/ GitPullRebaseAutostash
    \/ GitPushFollowTags
    \/ GitPushTag
    \/ GitSetUpstream
    \/ GitSwitchBranch
    \/ GitSwitchNewBranch
    \/ GitTagAnnotated
    \/ GitTagExists

Spec == Init /\ [][Next]_vars

\* The branch and upstream workflow.
InitFlow ==
    /\ fs = TestFs
    /\ \E sw \in BOOLEAN, hd \in {"main", "HEAD"}, bs \in {{"main"}, {"main", "dev"}},
          rc \in RemoteConfigs :
          \E rb \in SUBSET Tracked(rc) :
              repo = [FreshRepo EXCEPT !.hasSwitch = sw, !.head = hd, !.branches = bs,
                                       !.remotes = rc, !.remoteBranches = rb]
    /\ last = [NoCall EXCEPT !.pre = repo]

NextFlow ==
    \/ GitCheckoutNewBranch
    \/ GitCreateOrSwitchBranch
    \/ GitEnsureUpstream
    \/ GitPushFollowTags
    \/ GitSetUpstream
    \/ GitSwitchBranch
    \/ GitSwitchNewBranch

SpecFlow == InitFlow /\ [][NextFlow]_vars

\* The helpers that go through GitPython, on any filesystem.
InitRepo ==
    /\ fs \in [Paths -> PathKinds]
    /\ repo = FreshRepo
    /\ last = [NoCall EXCEPT !.prefs = fs]

NextRepo ==
    \/ GitIsInit
    \/ GitRemoteCreateOnce

SpecRepo == InitRepo /\ [][NextRepo]_vars

(***************************************************************************)
(* Vocabulary of the properties.                                           *)
(***************************************************************************)
\* A command whose output the helpers parse.
IsQueryCmd(c) ==
    \/ c.argv[1] = "bash"
    \/ c.argv[2] \in {"rev-parse", "for-each-ref", "remote"}
    \/ c.argv[2] = "branch" /\ c.argv[3] = "--format"

\* A command run for its effect on the repository or the remote.
IsMutatingCmd(c) ==
    /\ c.argv[1] = "git"
    /\ \/ c.argv[2] \in {"push", "switch", "checkout", "commit", "tag", "pull"}
       \/ c.argv[2] = "branch" /\ c.argv[3] = "--set-upstream-to"

IsPushCmd(c) == c.argv[1] = "git" /\ c.argv[2] = "push"

Cmds(l) == {l.cmds[i] : i \in 1..Len(l.cmds)}
Argvs(l) == [i \in 1..Len(l.cmds) |-> l.cmds[i].argv]

\* `default_remote` as the caller means it: "origin" unless one is given.
RemoteMeant(d) == IF d \in {PyNone, PyStr("")} THEN "origin" ELSE d.v

(***************************************************************************)
(* C1.  git_remote_create_once is idempotent per remote name: a call with  *)
(* a name that is not yet a remote creates it with the given URL and       *)
(* returns the created remote; a call with a name that is a remote returns *)
(* None and changes nothing; so once a name has been given, every later    *)
(* call with it, whatever the URL, returns None, and a remote's URL never  *)
(* changes.  (SpecRepo starts with no remote: a remote that exists was     *)
(* created by an earlier call.)                                            *)
(***************************************************************************)
C1_Call ==
    last.op = "git_remote_create_once" =>
        LET n == last.arg.v
            u == last.arg2.v
        IN  IF last.pre.remotes[n] = NoUrl
            THEN /\ last.ret = PyRemote(n, u)
                 /\ last.err = NoErr
                 /\ repo = [last.pre EXCEPT !.remotes[n] = u]
            ELSE /\ last.ret = PyNone
                 /\ last.err = NoErr
                 /\ repo = last.pre

C1_Later ==
    /\ \A n \in RemoteNames : repo.remotes[n] # NoUrl => repo'.remotes[n] = repo.remotes[n]
    /\ (/\ last.op = "git_remote_create_once"
        /\ last'.op = "git_remote_create_once"
        /\ last'.arg = last.arg)
       => (last'.ret = PyNone /\ repo' = repo)

\* C1: every call behaves as C1_Call says, every step as C1_Later says.
C1_RemoteCreateOnce == []C1_Call /\ [][C1_Later]_vars

\* A second call with the name of a created remote and another URL.
C1_Witness ==
    /\ last.op = "git_remote_create_once"
    /\ last.pre.remotes[last.arg.v] \notin {NoUrl, last.arg2.v}
    /\ last.ret = PyNone
    /\ repo.remotes[last.arg.v] = last.pre.remotes[last.arg.v]

(***************************************************************************)
(* C2.  git_ensure_upstream on a branch: with no upstream configured, if   *)
(* it returns, the branch's upstream is "<default_remote>/<branch>" and    *)
(* that string is what it returned (by either path); with an upstream      *)
(* configured it returns that upstream, leaves the repository as it was    *)
(* and issues only queries.  A call right after a call that returned       *)
(* returns the same string and issues no mutating command.                 *)
(***************************************************************************)
C2_Call ==
    (last.op = "git_ensure_upstream" /\ last.pre.head \in last.pre.branches) =>
        LET b == last.pre.head
            want == RemoteMeant(last.arg) \o "/" \o b
        IN  IF last.pre.upstream[b] = ""
            THEN last.err = NoErr =>
                    /\ repo.upstream[b] = want
                    /\ last.ret = PyStr(want)
                    /\ repo.head = b
            ELSE /\ last.err = NoErr
                 /\ last.ret = PyStr(last.pre.upstream[b])
                 /\ repo = last.pre
                 /\ \A c \in Cmds(last) : IsQueryCmd(c) /\ ~IsMutatingCmd(c)

C2_Again ==
    (/\ last.op = "git_ensure_upstream"
     /\ last.err = NoErr
     /\ last'.op = "git_ensure_upstream")
    => /\ last'.err = NoErr
       /\ last'.ret = last.ret
       /\ repo' = repo
       /\ \A c \in Cmds(last') : ~IsMutatingCmd(c)

\* C2: every call behaves as C2_Call says, every step as C2_Again says.
C2_EnsureUpstream == []C2_Call /\ [][C2_Again]_vars

\* The push path, to a remote that is not the default one.
C2_Witness ==
    /\ last.op = "git_ensure_upstream"
    /\ last.arg = PyStr("backup")
    /\ last.pre.upstream[last.pre.head] = ""
    /\ last.err = NoErr
    /\ last.ret = PyStr("backup/" \o last.pre.head)
    /\ \E c \in Cmds(last) : IsPushCmd(c)

(***************************************************************************)
(* C3.  git_create_or_switch_branch issues `git switch -c <branch>`, then  *)
(* `git checkout -b <branch>`, then `git switch <branch>`, in that order,  *)
(* up to and including the first that succeeds; it raises exactly when all *)
(* three fail, and then the error of the third.                            *)
(***************************************************************************)
C3_Chain(b) ==
    <<<<"git", "switch", "-c", b>>, <<"git", "checkout", "-b", b>>, <<"git", "switch", b>>>>

\* C3: the commands issued are the chain up to its first success; the error
\* is the third command's, raised exactly when all three fail.
C3_CreateOrSwitchOrder ==
    last.op = "git_create_or_switch_branch" =>
        LET b == last.arg.v
            ok1 == ExecCreateBranch(last.pre, b, TRUE).ok
            ok2 == ExecCreateBranch(last.pre, b, FALSE).ok
            ok3 == ExecSwitch(last.pre, b).ok
            n == IF ok1 THEN 1 ELSE IF ok2 THEN 2 ELSE 3
        IN  /\ Argvs(last) = SubSeq(C3_Chain(b), 1, n)
            /\ (last.err # NoErr) <=> (~ok1 /\ ~ok2 /\ ~ok3)
            /\ last.err # NoErr => last.err = CommandError(C3_Chain(b)[3])

\* All three commands were issued and failed.
C3_Witness ==
    /\ last.op = "git_create_or_switch_branch"
    /\ Len(last.cmds) = 3
    /\ last.err = CommandError(<<"git", "switch", last.arg.v>>)

(***************************************************************************)
(* C4.  git_create_or_switch_branch with a name that does not exist        *)
(* creates the branch and checks it out; with a name that exists, called   *)
(* while another branch is checked out, it ends with the named branch      *)
(* checked out by the plain switch, raises nothing, and leaves the         *)
(* branches and their upstreams as they were.                              *)
(***************************************************************************)
C4_CreateThenSwitch ==
    last.op = "git_create_or_switch_branch" =>
        LET b == last.arg.v
        IN  IF b \notin last.pre.branches
            THEN /\ last.err = NoErr
                 /\ repo.branches = last.pre.branches \cup {b}
                 /\ repo.head = b
            ELSE last.pre.head \in last.pre.branches \ {b} =>
                 /\ last.err = NoErr
                 /\ repo.head = b
                 /\ last.cmds[Len(last.cmds)].argv = <<"git", "switch", b>>
                 /\ repo.branches = last.pre.branches
                 /\ repo.upstream = last.pre.upstream

(***************************************************************************)
(* C5.  git_push_follow_tags with a local branch that is not a local       *)
(* branch, or a remote that is not configured, raises a ValueError that    *)
(* names the missing branch or remote, having issued no push and changed   *)
(* no upstream.                                                            *)
(***************************************************************************)
C5_Local(l) == IF l.arg = PyNone THEN l.pre.head ELSE SplitOnce(l.arg.v, ":")[1]

\* C5: a missing branch or remote is answered by a ValueError, with no push.
C5_ValidatesBeforePush ==
    (/\ last.op = "git_push_follow_tags"
     /\ last.arg # PyNone
     /\ \/ C5_Local(last) \notin last.pre.branches
        \/ last.arg2.v \notin RemoteSet(last.pre))
    => /\ last.err.type = "ValueError"
       /\ last.err.msg \in
             {"Local branch '" \o C5_Local(last) \o "' does not exist.",
              "Remote '" \o last.arg2.v \o "' does not exist."}
       /\ \A c \in Cmds(last) : ~IsPushCmd(c)
       /\ repo.upstream = last.pre.upstream

(***************************************************************************)
(* C6.  git_push_follow_tags without a branch, on a detached HEAD, raises  *)
(* the detached-HEAD error right after the current-branch query: no other  *)
(* command is issued.                                                      *)
(***************************************************************************)
C6_DetachedFailsFast ==
    (/\ last.op = "git_push_follow_tags"
     /\ last.arg = PyNone
     /\ last.pre.head = "HEAD")
    => /\ last.err = Err("RuntimeError", "Cannot push: detached HEAD state.")
       /\ Argvs(last) = <<<<"git", "rev-parse", "--abbrev-ref", "HEAD">>>>

(***************************************************************************)
(* C7.  git_push_follow_tags with an existing local branch and a           *)
(* configured remote issues exactly one push, to that remote, of           *)
(* "<local>:<remote_branch>" with --follow-tags, and with --set-upstream   *)
(* exactly when the local branch has no upstream.                          *)
(***************************************************************************)
C7_Refspec(l) ==
    LET parts == SplitOnce(l.arg.v, ":")
    IN  parts[1] \o ":" \o parts[Len(parts)]

\* C7: one push, with the refspec, --follow-tags and the upstream flag.
C7_OnePush ==
    (/\ last.op = "git_push_follow_tags"
     /\ last.arg # PyNone
     /\ C5_Local(last) \in last.pre.branches
     /\ last.arg2.v \in RemoteSet(last.pre))
    => /\ Cardinality({i \in 1..Len(last.cmds) : IsPushCmd(last.cmds[i])}) = 1
       /\ \A c \in Cmds(last) :
             IsPushCmd(c) =>
                c.argv = IF last.pre.upstream[C5_Local(last)] = ""
                         THEN <<"git", "push", "--set-upstream", last.arg2.v,
                                C7_Refspec(last), "--follow-tags">>
                         ELSE <<"git", "push", last.arg2.v, C7_Refspec(last),
                                "--follow-tags">>

(***************************************************************************)
(* C8.  git_push_follow_tags on a local branch with no upstream, to a      *)
(* configured remote that does not have the branch, completes without      *)
(* error, and afterwards the remote has the branch and the local branch    *)
(* tracks it.                                                              *)
(***************************************************************************)
C8_FirstPush ==
    (/\ last.op = "git_push_follow_tags"
     /\ last.arg \in {PyStr(b) : b \in Branches}
     /\ last.arg.v \in last.pre.branches
     /\ last.pre.upstream[last.arg.v] = ""
     /\ last.arg2.v \in RemoteSet(last.pre)
     /\ (last.arg2.v \o "/" \o last.arg.v) \notin last.pre.remoteBranches)
    => /\ last.err = NoErr
       /\ (last.arg2.v \o "/" \o last.arg.v) \in repo.remoteBranches
       /\ repo.upstream[last.arg.v] = last.arg2.v \o "/" \o last.arg.v

(***************************************************************************)
(* C9.  git_is_init returns True for the root of a repository (a work tree *)
(* root or a git directory), False for any other path that exists, False   *)
(* for a path that does not exist; it raises nothing and leaves the        *)
(* filesystem as it was.                                                   *)
(***************************************************************************)
C9_IsInit ==
    last.op = "git_is_init" =>
        /\ last.err = NoErr
        /\ fs = last.prefs
        /\ last.ret = PyBool(last.prefs[last.arg.v] \in {"worktree", "bare"})

\* A path that does not exist.
C9_Witness ==
    /\ last.op = "git_is_init"
    /\ last.prefs[last.arg.v] = "absent"
    /\ last.ret = PyBool(FALSE)

(***************************************************************************)
(* C10.  Whatever inherit_stdio the caller passes, every command whose     *)
(* output is parsed runs captured (inherit_stdio off); every other command *)
(* a helper issues is a mutating one and runs with the caller's flag.      *)
(***************************************************************************)
C10_QueriesCaptured ==
    \A c \in Cmds(last) :
        IF IsQueryCmd(c) THEN c.inherit = FALSE
        ELSE IsMutatingCmd(c) /\ c.inherit = last.inherit

\* A caller asking for inherited streams, a helper that queries and mutates.
C10_Witness ==
    /\ last.op = "git_ensure_upstream"
    /\ last.inherit
    /\ \E c \in Cmds(last) : IsQueryCmd(c) /\ ~c.inherit
    /\ \E c \in Cmds(last) : IsMutatingCmd(c) /\ c.inherit

====
